---------------------------- MODULE Spec2Model ----------------------------
(***************************************************************************)
(* Model of the derive_constructors procedural macros: the token-group     *)
(* parser (utils.rs), the field resolver and error-shape synthesizer       *)
(* (parsing_structs.rs), the drivers and emitters (lib.rs), and the        *)
(* run-time behaviour of the constructors they emit.                       *)
(*                                                                         *)
(* Identifiers and literals are sequences of one-character strings, so     *)
(* that case conversions are computed character by character.              *)
(***************************************************************************)
EXTENDS Integers, Sequences, FiniteSets, TLC

VARIABLES
    token_stream,   \* tokens idents_and_groups_from has not consumed yet
    parse_phase,    \* ParsePhase of the parser loop
    idents,         \* identifiers accepted by the parser so far
    groups,         \* group contents accepted by the parser so far
    parse_result,   \* whether the parser has returned, and the Result it returned
    parser_input,   \* the whole stream the parser was called with
    request,        \* the macro invocation: which macro, the item, the attribute
    outcome,        \* "pending", or what the macro invocation produced
    call            \* the run of the generated constructor

vars == <<token_stream, parse_phase, idents, groups, parse_result, parser_input,
          request, outcome, call>>

parserVars == <<token_stream, parse_phase, idents, groups, parse_result, parser_input>>
macroVars == <<request, outcome, call>>

-----------------------------------------------------------------------------
(* Bounds of the model.                                                    *)

MaxTokens == 4      \* length of the arbitrary token streams fed to the parser
MaxPairs == 3       \* name(group) pairs of the well-formed streams
MaxFields == 3      \* declared fields of a record
MaxListed == 2      \* identifiers inside fields(...)
MaxDefaults == 2    \* entries inside defaults(...)
MaxVariants == 2    \* variants of an enum

-----------------------------------------------------------------------------
(* Sequences helpers.                                                      *)

Range(s) == {s[i] : i \in 1..Len(s)}

NoDuplicates(s) == \A i, j \in 1..Len(s) : s[i] = s[j] => i = j

SeqsUpTo(S, n) == UNION {[1..k -> S] : k \in 0..n}

\* The sequences of ss concatenated, sep between consecutive ones.
RECURSIVE JoinWith(_, _)
JoinWith(ss, sep) ==
    IF ss = <<>> THEN <<>>
    ELSE IF Len(ss) = 1 THEN Head(ss)
    ELSE Head(ss) \o sep \o JoinWith(Tail(ss), sep)

Contains(s, x) == \E i \in 1..Len(s) : s[i] = x

\* Position of the first element of s equal to x, 0 when there is none.
FirstIndex(s, x) ==
    IF Contains(s, x) THEN CHOOSE i \in 1..Len(s) : s[i] = x /\ \A j \in 1..(i - 1) : s[j] # x
    ELSE 0

-----------------------------------------------------------------------------
(* Characters and the strings of the sources.                              *)

UpperAlphabet == <<"A","B","C","D","E","F","G","H","I","J","K","L","M",
                   "N","O","P","Q","R","S","T","U","V","W","X","Y","Z">>
LowerAlphabet == <<"a","b","c","d","e","f","g","h","i","j","k","l","m",
                   "n","o","p","q","r","s","t","u","v","w","x","y","z">>

IsUpper(c) == Contains(UpperAlphabet, c)
IsLower(c) == Contains(LowerAlphabet, c)

ToLowerChar(c) == IF IsUpper(c) THEN LowerAlphabet[FirstIndex(UpperAlphabet, c)] ELSE c
ToUpperChar(c) == IF IsLower(c) THEN UpperAlphabet[FirstIndex(LowerAlphabet, c)] ELSE c

\* str::to_lowercase
to_lowercase(s) == [i \in 1..Len(s) |-> ToLowerChar(s[i])]

s_named == <<"n","a","m","e","d">>
s_pattern == <<"p","a","t","t","e","r","n">>
s_fields == <<"f","i","e","l","d","s">>
s_defaults == <<"d","e","f","a","u","l","t","s">>
s_from == <<"f","r","o","m">>
s_tryfrom == <<"t","r","y","f","r","o","m">>
s_From == <<"F","r","o","m">>
s_TryFrom == <<"T","r","y","F","r","o","m">>
s_FROM == <<"F","R","O","M">>
s_Into == <<"I","n","t","o">>
s_Form == <<"F","o","r","m">>
s_Error == <<"E","r","r","o","r">>
s_new == <<"n","e","w">>
s_age == <<"a","g","e">>
s_name == <<"n","a","m","e">>
s_id == <<"i","d">>
s_u8 == <<"u","8">>
s_str == <<"s","t","r">>
s_String == <<"S","t","r","i","n","g">>
s_CharacterInfo == <<"C","h","a","r","a","c","t","e","r","I","n","f","o">>

-----------------------------------------------------------------------------
(* Token trees (proc_macro::TokenTree).  A token is an identifier, a       *)
(* punctuation sign, a literal, or a delimited group holding a stream.     *)

Token(kind, text, stream) == [kind |-> kind, text |-> text, stream |-> stream]

Id(text) == Token("Ident", text, <<>>)
Punct(ch) == Token("Punct", <<ch>>, <<>>)
Lit(text) == Token("Literal", text, <<>>)
\* A group keeps its delimiter in text: "(", "[" or "{".
Group(delim, stream) == Token("Group", <<delim>>, stream)
Paren(stream) == Group("(", stream)
Comma == Punct(",")

\* quote!(core::default::Default::default())
DefaultInitializer == <<Id(<<"D","e","f","a","u","l","t">>), Paren(<<>>)>>

-----------------------------------------------------------------------------
(* utils.rs: idents_and_groups_from and ParsePhase.                        *)

\* The cycle without the separator step after a group.
advance_to_next_SkipsSeparator(phase) ==
    CASE phase = "Ident" -> "Group"
      [] phase = "Group" -> "Ident"
      [] phase = "Punct" -> "Ident"

\* ParsePhase::advance_to_next
advance_to_next(phase) ==
    CASE phase = "Ident" -> "Group"
      [] phase = "Group" -> "Punct"
      [] phase = "Punct" -> "Ident"

Ok(value) == [ok |-> TRUE, value |-> value, err |-> ""]
Err(err) == [ok |-> FALSE, value |-> <<>>, err |-> err]

ParserState(phase, ids, grps, err) ==
    [phase |-> phase, idents |-> ids, groups |-> grps, err |-> err]

ParserStart == ParserState("Ident", <<>>, <<>>, "")

\* One iteration of the loop over the tokens: the match on the phase, the
\* early return of the error, and the advance of the phase.
ParseToken(st, token) ==
    CASE st.phase = "Ident" ->
            IF token.kind = "Ident"
            THEN ParserState(advance_to_next(st.phase), Append(st.idents, token.text), st.groups, "")
            ELSE [st EXCEPT !.err = "Expected a name"]
      [] st.phase = "Group" ->
            IF token.kind = "Group"
            THEN ParserState(advance_to_next(st.phase), st.idents, Append(st.groups, token.stream), "")
            ELSE [st EXCEPT !.err = "Expected a group after group named"]
      [] st.phase = "Punct" ->
            IF token.kind = "Punct"
            THEN ParserState(advance_to_next(st.phase), st.idents, st.groups, "")
            ELSE [st EXCEPT !.err = "Expected a separator after group named"]

\* zip pairing every identifier with the group of the mirrored position.
zip_Misaligned(a, b) ==
    LET n == IF Len(a) < Len(b) THEN Len(a) ELSE Len(b)
    IN  [i \in 1..n |-> <<a[i], b[n + 1 - i]>>]

\* zip(idents, groups)
zip(a, b) ==
    LET n == IF Len(a) < Len(b) THEN Len(a) ELSE Len(b)
    IN  [i \in 1..n |-> <<a[i], b[i]>>]

\* The end of the loop without the comparison of the two lengths.
ParseEnd_NoLengthCheck(st) == Ok(zip(st.idents, st.groups))

\* What the function returns once the loop has consumed every token.
ParseEnd(st) ==
    IF Len(st.idents) # Len(st.groups)
    THEN Err("Expected a group")
    ELSE Ok(zip(st.idents, st.groups))

RECURSIVE ParseLoop(_, _)
ParseLoop(st, ts) ==
    IF ts = <<>> THEN ParseEnd(st)
    ELSE LET next == ParseToken(st, Head(ts))
         IN  IF next.err # "" THEN Err(next.err) ELSE ParseLoop(next, Tail(ts))

idents_and_groups_from(ts) == ParseLoop(ParserStart, ts)

-----------------------------------------------------------------------------
(* The parser run token by token: one action per arm of the match on the   *)
(* phase, one for the end of the loop.                                     *)

Running == [done |-> FALSE, ok |-> FALSE, value |-> <<>>, err |-> ""]
Returned(res) == [done |-> TRUE, ok |-> res.ok, value |-> res.value, err |-> res.err]

CurrentParserState == ParserState(parse_phase, idents, groups, "")

ConsumeToken(phase) ==
    /\ ~parse_result.done
    /\ token_stream # <<>>
    /\ parse_phase = phase
    /\ LET next == ParseToken(CurrentParserState, Head(token_stream))
       IN  IF next.err # ""
           THEN /\ parse_result' = Returned(Err(next.err))
                /\ UNCHANGED <<token_stream, parse_phase, idents, groups>>
           ELSE /\ token_stream' = Tail(token_stream)
                /\ parse_phase' = next.phase
                /\ idents' = next.idents
                /\ groups' = next.groups
                /\ UNCHANGED parse_result
    /\ UNCHANGED <<parser_input, macroVars>>

ParseIdentPhase == ConsumeToken("Ident")
ParseGroupPhase == ConsumeToken("Group")
ParsePunctPhase == ConsumeToken("Punct")

ParseEndOfStream ==
    /\ ~parse_result.done
    /\ token_stream = <<>>
    /\ parse_result' = Returned(ParseEnd(CurrentParserState))
    /\ UNCHANGED <<token_stream, parse_phase, idents, groups, parser_input, macroVars>>

-----------------------------------------------------------------------------
(* Items (syn::DeriveInput) and attributes.                                *)

\* An attribute on a field: #[path] (parenthesized = FALSE) or #[path(tokens)].
Attribute(path, parenthesized, tokens) ==
    [path |-> path, parenthesized |-> parenthesized, tokens |-> tokens]

s_no_from == <<"n","o","_","f","r","o","m">>

Field(ident, ty, attrs) == [ident |-> ident, ty |-> ty, attrs |-> attrs]

\* utils.rs find_attribute: the first attribute whose path is the identifier.
HasAttribute(attrs, attribute_ident) == \E i \in 1..Len(attrs) : attrs[i].path = attribute_ident

find_attribute(attrs, attribute_ident) ==
    attrs[CHOOSE i \in 1..Len(attrs) :
            /\ attrs[i].path = attribute_ident
            /\ \A j \in 1..(i - 1) : attrs[j].path # attribute_ident]

\* utils.rs extract_token_stream_of_attribute: Some(tokens) when the attribute
\* has parenthesized arguments, None when parse_args_with fails.
Some(v) == [some |-> TRUE, v |-> v]
None == [some |-> FALSE, v |-> <<>>]

extract_token_stream_of_attribute(attribute) ==
    IF attribute.parenthesized THEN Some(attribute.tokens) ELSE None

-----------------------------------------------------------------------------
(* parsing_structs.rs: FieldsInfo.                                         *)

FieldsInfo(names, types, no_from, initializers) ==
    [fields_names |-> names, fields_types |-> types,
     no_from_fields |-> no_from, no_from_fields_initializers |-> initializers]

\* The elements of s that satisfy Keep, in order (Iterator::filter).
Filter(s, Keep(_)) == SelectSeq(s, Keep)

Map(s, F(_)) == [i \in 1..Len(s) |-> F(s[i])]

\* The initializer ignoring the expression attached to the marker.
NoFromInitializerOf_AlwaysDefault(field) == DefaultInitializer

NoFromInitializerOf(field) ==
    LET arg == extract_token_stream_of_attribute(find_attribute(field.attrs, s_no_from))
    IN  IF arg.some THEN arg.v ELSE DefaultInitializer

new_from_derive_data_struct(data) ==
    LET IsActive(field) == ~HasAttribute(field.attrs, s_no_from)
        IsNoFrom(field) == HasAttribute(field.attrs, s_no_from)
        IdentOf(field) == field.ident
        TypeOf(field) == field.ty
        active == Filter(data, IsActive)
        passive == Filter(data, IsNoFrom)
    IN  FieldsInfo(Map(active, IdentOf), Map(active, TypeOf),
                   Map(passive, IdentOf), Map(passive, NoFromInitializerOf))

\* The map keeping the first pair written and dropping the others.
HashMapFrom_FirstPairOnly(pairs) ==
    [k \in {pairs[i][1] : i \in {j \in 1..Len(pairs) : j = 1}} |-> pairs[1][2]]

\* HashMap<String, TokenStream> collected from the parsed pairs: a later pair
\* replaces an earlier one with the same key.
HashMapFrom(pairs) ==
    [k \in {pairs[i][1] : i \in 1..Len(pairs)} |->
        pairs[CHOOSE i \in 1..Len(pairs) :
                /\ pairs[i][1] = k
                /\ \A j \in (i + 1)..Len(pairs) : pairs[j][1] # k][2]]

HashMapRemove(map, key) == IF key \in DOMAIN map THEN Some(map[key]) ELSE None

\* fields_token.to_string().split(","): the pieces between the commas.
RECURSIVE SplitAtCommas(_, _)
SplitAtCommas(ts, piece) ==
    IF ts = <<>> THEN <<piece>>
    ELSE IF Head(ts) = Comma THEN <<piece>> \o SplitAtCommas(Tail(ts), <<>>)
    ELSE SplitAtCommas(Tail(ts), Append(piece, Head(ts)))

\* parse_str::<Ident>(piece.trim()) and syn::parse::<Ident>(stream): succeed
\* on exactly one identifier token.
IsOneIdent(ts) == Len(ts) = 1 /\ ts[1].kind = "Ident"

Resolved(info) == [panic |-> "", info |-> info]
Panicked(msg) == [panic |-> msg, info |-> <<>>]

DeclaredIdents(data) == [i \in 1..Len(data) |-> data[i].ident]

\* The lookup taking the type of the first declared field whatever the name.
fields_in_use_type_FirstDeclared(data, constructor_field) == data[1].ty

\* The type of the first declared field with the identifier (lines 63-68).
fields_in_use_type(data, constructor_field) ==
    data[FirstIndex(DeclaredIdents(data), constructor_field)].ty

\* The filter with the test on fields_in_use not negated.
unreached_fields_NotNegated(data, fields_in_use, no_from_fields) ==
    SelectSeq(DeclaredIdents(data),
              LAMBDA name : Contains(fields_in_use, name) /\ ~Contains(no_from_fields, name))

\* The declared fields neither in use nor given a default (lines 70-75).
unreached_fields(data, fields_in_use, no_from_fields) ==
    SelectSeq(DeclaredIdents(data),
              LAMBDA name : ~Contains(fields_in_use, name) /\ ~Contains(no_from_fields, name))

\* The default of `fields` without the filter on the defaults.
default_fields_in_use_Unfiltered(data, no_from_fields) == DeclaredIdents(data)

\* The default of `fields`: the declared fields not in defaults (lines 59-61).
default_fields_in_use(data, no_from_fields) ==
    SelectSeq(DeclaredIdents(data), LAMBDA ident : ~Contains(no_from_fields, ident))

new_from_macro_attribute_info(data, attr_contents) ==
    LET defaults == HashMapRemove(attr_contents, s_defaults)
        defaults_parsed == idents_and_groups_from(defaults.v)
        no_from_fields == IF defaults.some THEN Map(defaults_parsed.value, Head) ELSE <<>>
        Second(pair) == pair[2]
        no_from_initializers == IF defaults.some THEN Map(defaults_parsed.value, Second) ELSE <<>>
        fields == HashMapRemove(attr_contents, s_fields)
        pieces == SplitAtCommas(fields.v, <<>>)
        fields_in_use ==
            IF fields.some THEN Map(pieces, LAMBDA piece : piece[1].text)
            ELSE default_fields_in_use(data, no_from_fields)
        fields_in_use_types == Map(fields_in_use, LAMBDA f : fields_in_use_type(data, f))
        unreached_field == unreached_fields(data, fields_in_use, no_from_fields)
        unreached_initializers == Map(unreached_field, LAMBDA f : DefaultInitializer)
    IN  IF defaults.some /\ ~defaults_parsed.ok
        THEN Panicked("Could not resolve groups and descriptions inside attribute 'defaults'")
        ELSE IF fields.some /\ \E i \in 1..Len(pieces) : ~IsOneIdent(pieces[i])
        THEN Panicked("called Result::unwrap() on an Err value")
        ELSE IF \E i \in 1..Len(fields_in_use) : ~Contains(DeclaredIdents(data), fields_in_use[i])
        THEN Panicked("called Option::unwrap() on a None value")
        ELSE Resolved(FieldsInfo(fields_in_use, fields_in_use_types,
                                 no_from_fields \o unreached_field,
                                 no_from_initializers \o unreached_initializers))

-----------------------------------------------------------------------------
(* Case conversion (convert_case, Case::Pascal) on identifiers made of     *)
(* letters and underscores: words are cut at underscores, at a lower-case  *)
(* letter followed by an upper-case one, and before the last capital of a  *)
(* run of capitals followed by a lower-case letter; every word is          *)
(* capitalized and the words are joined.                                   *)

WordStartsAt(s, i) ==
    \/ i = 1
    \/ s[i - 1] = "_"
    \/ IsLower(s[i - 1]) /\ IsUpper(s[i])
    \/ IsUpper(s[i - 1]) /\ IsUpper(s[i]) /\ i < Len(s) /\ IsLower(s[i + 1])

to_case_pascal(s) ==
    LET kept == SelectSeq([i \in 1..Len(s) |-> i], LAMBDA i : s[i] # "_")
    IN  [k \in 1..Len(kept) |->
            IF WordStartsAt(s, kept[k]) THEN ToUpperChar(s[kept[k]]) ELSE ToLowerChar(s[kept[k]])]

-----------------------------------------------------------------------------
(* parsing_structs.rs: TryFromInfo.                                        *)

s_error_enum_metadata == <<"e","r","r","o","r","_","e","n","u","m","_","m","e","t","a","d","a","t","a">>
s_error_enum_named == <<"e","r","r","o","r","_","e","n","u","m","_","n","a","m","e","d">>
s_enum_error_meta == <<"e","n","u","m","_","e","r","r","o","r","_","m","e","t","a">>
s_TryFromError == <<"T","r","y","F","r","o","m","E","r","r","o","r">>
s__error == <<"_","e","r","r","o","r">>

TryFromInfo(metadata, enum_name, error_types, try_from_types) ==
    [error_enum_metadata |-> metadata, error_enum_name |-> enum_name,
     error_types |-> error_types, try_from_types |-> try_from_types]

\* The error identifiers without the case conversion.
error_types_of_Uncased(fields_names) == Map(fields_names, LAMBDA f : f \o s_Error)

error_types_of(fields_names) == Map(fields_names, LAMBDA f : to_case_pascal(f) \o s_Error)
try_from_types_of(fields_names) == Map(fields_names, LAMBDA f : to_case_pascal(f) \o s_From)

\* TryFromInfo::new, the derive form.
TryFromInfo_new(name, attrs, fields_names) ==
    LET meta == IF HasAttribute(attrs, s_enum_error_meta)
                THEN extract_token_stream_of_attribute(find_attribute(attrs, s_enum_error_meta))
                ELSE Some(<<>>)
    IN  IF ~meta.some
        THEN Panicked("Could not parse content of the #[enum_error_meta] attribute")
        ELSE Resolved(TryFromInfo(meta.v, to_case_pascal(name) \o s_TryFromError,
                                  error_types_of(fields_names), try_from_types_of(fields_names)))

\* The name built from the type and the function although one is supplied.
error_enum_name_of_IgnoresNamed(type_ident, constructor_fn_name, named) ==
    LET fn_name == IF constructor_fn_name.some THEN constructor_fn_name.v ELSE s_TryFrom
    IN  to_case_pascal(type_ident \o <<"_">> \o fn_name \o s__error)

\* error_enum_named, or format!("{}_{}_error", ident, fn_name).to_case(Pascal)
\* (lines 138-145).
error_enum_name_of(type_ident, constructor_fn_name, named) ==
    LET fn_name == IF constructor_fn_name.some THEN constructor_fn_name.v ELSE s_TryFrom
    IN  IF named.some THEN named.v[1].text
        ELSE to_case_pascal(type_ident \o <<"_">> \o fn_name \o s__error)

\* TryFromInfo::new_from_macro_attribute_info, the attribute form.
TryFromInfo_new_from_macro_attribute_info(type_ident, fields_info, constructor_fn_name, attr_contents) ==
    LET meta == HashMapRemove(attr_contents, s_error_enum_metadata)
        named == HashMapRemove(attr_contents, s_error_enum_named)
        enum_name == error_enum_name_of(type_ident, constructor_fn_name, named)
    IN  IF named.some /\ ~IsOneIdent(named.v)
        THEN Panicked("called Result::unwrap() on an Err value")
        ELSE Resolved(TryFromInfo(IF meta.some THEN meta.v ELSE <<>>, enum_name,
                                  error_types_of(fields_info.fields_names),
                                  try_from_types_of(fields_info.fields_names)))

-----------------------------------------------------------------------------
(* lib.rs: the emitted declarations.                                       *)

\* One entry of the struct literal: `field,` (shorthand, the binding of that
\* name) or `field: initializer`.
Shorthand(field) == [field |-> field, shorthand |-> TRUE, expr |-> <<>>]
Initialized(field, expr) == [field |-> field, shorthand |-> FALSE, expr |-> expr]

\* #name { #(#fields_names,)* #(#no_from_fields: #no_from_fields_initializers,)* }
StructLiteral(fields_info) ==
    Map(fields_info.fields_names, Shorthand)
    \o [i \in 1..Len(fields_info.no_from_fields) |->
            Initialized(fields_info.no_from_fields[i], fields_info.no_from_fields_initializers[i])]

\* let #field = <#type>::try_from(#field).map_err(|error| #enum::#variant(error))?;
Conversion(field, ty, from, variant) ==
    [field |-> field, ty |-> ty, from |-> from, variant |-> variant]

Decl(kind, trait, target, fn_name, generics, param_names, param_types, conversions, literal, metadata) ==
    [decl |-> kind, trait |-> trait, target |-> target, fn_name |-> fn_name,
     generics |-> generics, param_names |-> param_names, param_types |-> param_types,
     conversions |-> conversions, literal |-> literal, metadata |-> metadata,
     variant |-> <<>>, source |-> <<>>]

s_try_from == <<"t","r","y","_","f","r","o","m">>

\* A, AError, B, BError, ...: #(#try_from_types , #error_types),*
Interleave(a, b) == [i \in 1..(2 * Len(a)) |-> IF i % 2 = 1 THEN a[(i + 1) \div 2] ELSE b[i \div 2]]

\* The direct emitter always implementing the trait.
tokens_for__from__for_struct_AlwaysTrait(name, fields_info, constructor_fn_name) ==
    <<Decl("impl_trait", s_From, name, s_from, <<>>,
           fields_info.fields_names, fields_info.fields_types,
           <<>>, StructLiteral(fields_info), <<>>)>>

tokens_for__from__for_struct(name, fields_info, constructor_fn_name) ==
    IF ~constructor_fn_name.some
    THEN <<Decl("impl_trait", s_From, name, s_from, <<>>,
                fields_info.fields_names, fields_info.fields_types,
                <<>>, StructLiteral(fields_info), <<>>)>>
    ELSE <<Decl("impl_fn", <<>>, name, constructor_fn_name.v, <<>>,
                fields_info.fields_names, fields_info.fields_types,
                <<>>, StructLiteral(fields_info), <<>>)>>

\* The fallible emitter leaving the error enum out.
tokens_for__try_from__for_struct_WithoutEnum(name, fields_info, try_from_info, constructor_fn_name) ==
    <<Decl("impl_trait", s_TryFrom, name, s_try_from,
           Interleave(try_from_info.try_from_types, try_from_info.error_types),
           fields_info.fields_names, try_from_info.try_from_types,
           <<>>, StructLiteral(fields_info), <<>>)>>

tokens_for__try_from__for_struct(name, fields_info, try_from_info, constructor_fn_name) ==
    LET error_enum ==
            Decl("enum", <<>>, try_from_info.error_enum_name, <<>>, try_from_info.error_types,
                 try_from_info.error_types, try_from_info.error_types,
                 <<>>, <<>>, try_from_info.error_enum_metadata)
        conversions ==
            [i \in 1..Len(fields_info.fields_names) |->
                Conversion(fields_info.fields_names[i], fields_info.fields_types[i],
                           try_from_info.try_from_types[i], try_from_info.error_types[i])]
        generics == Interleave(try_from_info.try_from_types, try_from_info.error_types)
    IN  IF ~constructor_fn_name.some
        THEN <<error_enum,
               Decl("impl_trait", s_TryFrom, name, s_try_from, generics,
                    fields_info.fields_names, try_from_info.try_from_types,
                    conversions, StructLiteral(fields_info), <<>>)>>
        ELSE <<error_enum,
               Decl("impl_fn", <<>>, name, constructor_fn_name.v, generics,
                    fields_info.fields_names, try_from_info.try_from_types,
                    conversions, StructLiteral(fields_info), <<>>)>>

-----------------------------------------------------------------------------
(* lib.rs: tokens_for__from__for_enum.                                     *)

\* A variant; the identifier of a field of a tuple variant is empty (None).
Variant(ident, attrs, fields) == [ident |-> ident, attrs |-> attrs, fields |-> fields]

s_value == <<"v","a","l","u","e">>

\* name.unwrap_or_else(|| index.to_string()), the index counted from 0.
variant_fieldnames(fields) ==
    [i \in 1..Len(fields) |->
        IF fields[i].ident # <<>> THEN fields[i].ident ELSE <<ToString(i - 1)>>]

\* The projections with .{index} also for a single field.
variant_indexes_AlwaysProjected(len) ==
    [i \in 1..len |-> <<Punct("."), Lit(<<ToString(i - 1)>>)>>]

\* Nothing for no field, the empty stream for one, .0 .1 ... otherwise.
variant_indexes(len) ==
    IF len = 0 THEN <<>>
    ELSE IF len = 1 THEN << <<>> >>
    ELSE [i \in 1..len |-> <<Punct("."), Lit(<<ToString(i - 1)>>)>>]

\* impl core::convert::From<(#(#types),*)> for #name {
\*     fn from(value: (#(#types),*)) -> Self {
\*         Self:: #variant_name { #(#fieldnames : value #indexes),* } } }
variant_impl(name, variant) ==
    LET variant_name == variant.ident
        fieldnames == variant_fieldnames(variant.fields)
        types == [i \in 1..Len(variant.fields) |-> variant.fields[i].ty]
        indexes == variant_indexes(Len(fieldnames))
        source == <<Paren(JoinWith([i \in 1..Len(types) |-> <<Id(types[i])>>], <<Comma>>))>>
        literal == [i \in 1..Len(fieldnames) |-> Initialized(fieldnames[i], <<Id(s_value)>> \o indexes[i])]
    IN  [Decl("impl_trait", s_From, name, s_from, <<>>, fieldnames, types, <<>>, literal, <<>>)
            EXCEPT !.variant = variant_name, !.source = source]

\* The reduce over the implementations unwrapped although there may be none.
tokens_for__from__for_enum(name, enum_data) ==
    LET eligible == SelectSeq(enum_data, LAMBDA variant : ~HasAttribute(variant.attrs, s_no_from))
        impls == [i \in 1..Len(eligible) |-> variant_impl(name, eligible[i])]
    IN  IF impls = <<>>
        THEN Panicked("called Option::unwrap() on a None value")
        ELSE Resolved(impls)

-----------------------------------------------------------------------------
(* lib.rs: the three macros.                                               *)

Item(shape, ident, attrs, fields) ==
    [shape |-> shape, ident |-> ident, attrs |-> attrs, fields |-> fields, variants |-> <<>>]

\* An enum: its variants in declaration order.
Enum(ident, variants) == [Item("enum", ident, <<>>, <<>>) EXCEPT !.variants = variants]

\* TokenStream::to_string: the tokens separated by spaces, a group printed
\* with its delimiters.
Closing(delim) == CASE delim = "(" -> ")" [] delim = "[" -> "]" [] OTHER -> "}"

RECURSIVE to_string(_)
to_string(ts) ==
    IF ts = <<>> THEN <<>>
    ELSE LET t == Head(ts)
             text == IF t.kind = "Group"
                     THEN t.text \o to_string(t.stream) \o <<Closing(t.text[1])>>
                     ELSE t.text
         IN  IF Len(ts) = 1 THEN text ELSE text \o <<" ">> \o to_string(Tail(ts))

Failed(msg) ==
    [done |-> TRUE, panic |-> msg, pattern |-> "", fields_info |-> <<>>, output |-> <<>>]
Generated(pattern, fields_info, output) ==
    [done |-> TRUE, panic |-> "", pattern |-> pattern, fields_info |-> fields_info, output |-> output]

\* The match with a fallback to the default pattern instead of the panic.
PatternOf_DefaultsToFrom(constructor_pattern) ==
    CASE constructor_pattern = s_tryfrom -> "TryFrom"
      [] OTHER -> "From"

\* The match on the lower-cased pattern name (lines 150-154).
PatternOf(constructor_pattern) ==
    CASE constructor_pattern = s_from -> "From"
      [] constructor_pattern = s_tryfrom -> "TryFrom"
      [] OTHER -> "panic"

\* #[constructor(attr)] on item.
constructor_macro(attr, item) ==
    LET parsed == idents_and_groups_from(attr)
        attr_contents == HashMapFrom(parsed.value)
        named == HashMapRemove(attr_contents, s_named)
        constructor_fn_name == IF named.some THEN Some(named.v[1].text) ELSE None
        pattern == HashMapRemove(attr_contents, s_pattern)
        constructor_pattern ==
            PatternOf(IF pattern.some THEN to_lowercase(to_string(pattern.v)) ELSE s_from)
        fields == new_from_macro_attribute_info(item.fields, attr_contents)
        try_from_info ==
            TryFromInfo_new_from_macro_attribute_info(item.ident, fields.info, constructor_fn_name, attr_contents)
    IN  IF item.shape # "struct"
        THEN Failed("This attribute macro is only implemented for structs")
        ELSE IF ~parsed.ok
        THEN Failed("Could not resolve groups and descriptions")
        ELSE IF named.some /\ ~IsOneIdent(named.v)
        THEN Failed("Could not get name for constructor's function")
        ELSE IF constructor_pattern = "panic"
        THEN Failed("This constructor is asking for a pattern by the name of")
        ELSE IF fields.panic # ""
        THEN Failed(fields.panic)
        ELSE IF constructor_pattern = "From"
        THEN Generated("From", fields.info,
                       tokens_for__from__for_struct(item.ident, fields.info, constructor_fn_name))
        ELSE IF try_from_info.panic # ""
        THEN Failed(try_from_info.panic)
        ELSE Generated("TryFrom", fields.info,
                       tokens_for__try_from__for_struct(item.ident, fields.info, try_from_info.info,
                                                        constructor_fn_name))

\* #[derive(From)] on a struct or an enum.
derive_from_macro(item) ==
    LET fields_info == new_from_derive_data_struct(item.fields)
        impls == tokens_for__from__for_enum(item.ident, item.variants)
    IN  IF item.shape = "union"
        THEN Failed("The 'From' derive_constructors_proc macro targets structs and enums")
        ELSE IF item.shape = "struct"
        THEN Generated("From", fields_info, tokens_for__from__for_struct(item.ident, fields_info, None))
        ELSE IF impls.panic # ""
        THEN Failed(impls.panic)
        ELSE Generated("From", FieldsInfo(<<>>, <<>>, <<>>, <<>>), impls.info)

\* #[derive(TryFrom)].
derive_try_from_macro(item) ==
    LET fields_info == new_from_derive_data_struct(item.fields)
        try_from_info == TryFromInfo_new(item.ident, item.attrs, fields_info.fields_names)
    IN  IF item.shape # "struct"
        THEN Failed("The 'From' derive_constructors_proc macro targets structs")
        ELSE IF try_from_info.panic # ""
        THEN Failed(try_from_info.panic)
        ELSE Generated("TryFrom", fields_info,
                       tokens_for__try_from__for_struct(item.ident, fields_info, try_from_info.info, None))

constructor ==
    /\ request.macro = "constructor"
    /\ ~outcome.done
    /\ outcome' = constructor_macro(request.attr, request.item)
    /\ UNCHANGED <<request, call, parserVars>>

derive_from ==
    /\ request.macro = "derive_from"
    /\ ~outcome.done
    /\ outcome' = derive_from_macro(request.item)
    /\ UNCHANGED <<request, call, parserVars>>

derive_try_from ==
    /\ request.macro = "derive_try_from"
    /\ ~outcome.done
    /\ outcome' = derive_try_from_macro(request.item)
    /\ UNCHANGED <<request, call, parserVars>>

-----------------------------------------------------------------------------
(* The generated constructors at run time.                                 *)

\* The declaration the compiler accepts: the struct literal names every
\* declared field exactly once with a non-empty initializer, and no binding,
\* generic parameter or variant is declared twice.
LiteralFields(decl) == Map(decl.literal, LAMBDA e : e.field)

Compiles(item, output) ==
    \A d \in 1..Len(output) :
        /\ NoDuplicates(output[d].generics)
        /\ NoDuplicates(output[d].param_names)
        /\ output[d].decl # "enum" =>
              /\ NoDuplicates(LiteralFields(output[d]))
              /\ Range(LiteralFields(output[d])) = Range(DeclaredIdents(item.fields))
              /\ \A e \in Range(output[d].literal) : ~e.shorthand => e.expr # <<>>

\* The declaration holding the constructor: the last one emitted.
ConstructorDecl(output) == output[Len(output)]

DeclaredType(item, ident) == fields_in_use_type(item.fields, ident)

\* Default::default() of the declared types.
DefaultValue(ty) == IF ty = s_u8 THEN <<Lit(<<"0">>)>> ELSE <<Lit(<<>>)>>

\* The value of an initializer expression: the default of the field's type
\* for Default::default(), the expression's own value otherwise.
Evaluate(expr, ty) == IF expr = DefaultInitializer THEN DefaultValue(ty) ELSE expr

\* The record the struct literal builds from the bindings in scope.
Construct(item, literal, env) ==
    [f \in Range(Map(literal, LAMBDA e : e.field)) |->
        LET e == literal[FirstIndex(Map(literal, LAMBDA x : x.field), f)]
        IN  IF e.shorthand THEN env[f] ELSE Evaluate(e.expr, DeclaredType(item, f))]

LogEntry(op, field, ok, value, error) ==
    [op |-> op, field |-> field, ok |-> ok, value |-> value, error |-> error]

\* The initializers evaluated from the last one written to the first.
InitializerLog_Reversed(literal) ==
    LET written == SelectSeq(literal, LAMBDA e : ~e.shorthand)
    IN  [i \in 1..Len(written) |->
            LogEntry("initializer", written[Len(written) + 1 - i].field, TRUE,
                     written[Len(written) + 1 - i].expr, "")]

\* The initializers of the struct literal, evaluated in the order written.
InitializerLog(literal) ==
    Map(SelectSeq(literal, LAMBDA e : ~e.shorthand),
        LAMBDA e : LogEntry("initializer", e.field, TRUE, e.expr, ""))

\* The destructuring binding the names to the mirrored positions.
Bind_Reversed(names, values) ==
    [f \in Range(names) |-> values[Len(values) + 1 - FirstIndex(names, f)]]

Bind(names, values) == [f \in Range(names) |-> values[FirstIndex(names, f)]]

ReturnOk(record) == [tag |-> "Ok", record |-> record, variant |-> <<>>, payload |-> ""]
ReturnErr(variant, payload) == [tag |-> "Err", record |-> <<>>, variant |-> variant, payload |-> payload]

\* The values passed to a constructor of n parameters: distinct per position.
ArgValue(i) == <<Lit(<<"v">>), Lit(<<ToString(i)>>)>>
ArgTuples(n) == {[i \in 1..n |-> ArgValue(i)], [i \in 1..n |-> ArgValue(n + 1 - i)]}

\* The errors a failing TryFrom conversion can produce.
ConversionErrors == {"PosOverflow", "NegOverflow"}

CanCall(pattern) ==
    /\ outcome.done
    /\ request.item.shape = "struct"
    /\ outcome.panic = ""
    /\ outcome.pattern = pattern
    /\ Compiles(request.item, outcome.output)

\* from(value) and the named direct constructor: bind the parameters (the
\* trait form by destructuring the tuple) and build the record.
CallFrom ==
    /\ CanCall("From")
    /\ call.pc = "idle"
    /\ LET d == ConstructorDecl(outcome.output)
       IN  \E args \in ArgTuples(Len(d.param_names)) :
             LET env == Bind(d.param_names, args)
             IN  call' = [pc |-> "returned", args |-> args, idx |-> 0,
                          log |-> InitializerLog(d.literal), env |-> env,
                          result |-> ReturnOk(Construct(request.item, d.literal, env))]
    /\ UNCHANGED <<request, outcome, parserVars>>

\* try_from(value) and the named fallible constructor, entered.
CallTryFrom ==
    /\ CanCall("TryFrom")
    /\ call.pc = "idle"
    /\ LET d == ConstructorDecl(outcome.output)
       IN  \E args \in ArgTuples(Len(d.param_names)) :
             call' = [pc |-> "converting", args |-> args, idx |-> 1, log |-> <<>>,
                      env |-> Bind(d.param_names, args), result |-> <<>>]
    /\ UNCHANGED <<request, outcome, parserVars>>

\* The conversion statement without the `?`: a failure is recorded and the
\* next statement runs.
ConvertStatement_KeepsGoing(d, c, result) ==
    IF result.ok
    THEN [c EXCEPT !.idx = c.idx + 1,
                   !.log = Append(c.log, LogEntry("try_from", d.conversions[c.idx].field, TRUE, result.value, ""))]
    ELSE [c EXCEPT !.idx = c.idx + 1,
                   !.log = Append(c.log, LogEntry("try_from", d.conversions[c.idx].field, FALSE, <<>>, result.err)),
                   !.result = ReturnErr(d.conversions[c.idx].variant, result.err)]

\* The statement converting the idx-th active field: on success the binding
\* is shadowed by the converted value, on failure `?` returns the variant.
ConvertStatement(d, c, result) ==
    IF result.ok
    THEN [c EXCEPT !.idx = c.idx + 1,
                   !.log = Append(c.log, LogEntry("try_from", d.conversions[c.idx].field, TRUE, result.value, "")),
                   !.env = [f \in DOMAIN c.env |->
                              IF f = d.conversions[c.idx].field THEN result.value ELSE c.env[f]]]
    ELSE [c EXCEPT !.pc = "returned",
                   !.log = Append(c.log, LogEntry("try_from", d.conversions[c.idx].field, FALSE, <<>>, result.err)),
                   !.result = ReturnErr(d.conversions[c.idx].variant, result.err)]

ConvertField ==
    /\ call.pc = "converting"
    /\ LET d == ConstructorDecl(outcome.output)
       IN  /\ call.idx <= Len(d.conversions)
           /\ \E result \in {Ok(call.env[d.conversions[call.idx].field])}
                               \cup {Err(e) : e \in ConversionErrors} :
                 call' = ConvertStatement(d, call, result)
    /\ UNCHANGED <<request, outcome, parserVars>>

\* Ok(#name { ... }) once every conversion has succeeded.
ReturnConstructed ==
    /\ call.pc = "converting"
    /\ LET d == ConstructorDecl(outcome.output)
       IN  /\ call.idx > Len(d.conversions)
           /\ call' = [call EXCEPT !.pc = "returned",
                                    !.log = call.log \o InitializerLog(d.literal),
                                    !.result = ReturnOk(Construct(request.item, d.literal, call.env))]
    /\ UNCHANGED <<request, outcome, parserVars>>

-----------------------------------------------------------------------------
(* The generated conversions of an enum at run time.                       *)

\* The type written (T1, ..., Tn): the unit type for nothing between the
\* parentheses, the type itself for one type without a comma, a tuple
\* otherwise.
CompositeType(source) ==
    LET inner == source[1].stream
        written == SelectSeq(inner, LAMBDA t : t.kind = "Ident")
    IN  [shape |-> IF inner = <<>> THEN "unit"
                   ELSE IF \A i \in 1..Len(inner) : inner[i] # Comma THEN "bare"
                   ELSE "tuple",
         types |-> [i \in 1..Len(written) |-> written[i].text]]

UnitValue == [shape |-> "unit", elems |-> <<>>]
ScalarValue(v) == [shape |-> "scalar", elems |-> <<v>>]
TupleValue(vs) == [shape |-> "tuple", elems |-> vs]

\* The values of a composite type passed to from.
ValuesOf(composite) ==
    CASE composite.shape = "unit" -> {UnitValue}
      [] composite.shape = "bare" -> {ScalarValue(ArgValue(1)), ScalarValue(ArgValue(2))}
      [] OTHER -> {TupleValue(args) : args \in ArgTuples(Len(composite.types))}

\* The position named by the projection .k
ProjectedIndex(expr) == CHOOSE k \in 0..9 : <<ToString(k)>> = expr[3].text

\* value is of the field's type for a bare composite only; value.k needs a
\* tuple with an element k.
ProjectionCompiles(expr, composite) ==
    IF Len(expr) = 1 THEN composite.shape = "bare"
    ELSE composite.shape = "tuple" /\ ProjectedIndex(expr) < Len(composite.types)

\* value, or value.k
Projection(expr, input) ==
    IF Len(expr) = 1 THEN input ELSE ScalarValue(input.elems[ProjectedIndex(expr) + 1])

\* The implementations the compiler accepts: no two are for the same source
\* type and every projection is on a tuple that has the element.
CompilesEnum(output) ==
    /\ \A d, e \in 1..Len(output) :
          CompositeType(output[d].source) = CompositeType(output[e].source) => d = e
    /\ \A d \in 1..Len(output) :
          /\ NoDuplicates(LiteralFields(output[d]))
          /\ \A i \in 1..Len(output[d].literal) :
                ProjectionCompiles(output[d].literal[i].expr, CompositeType(output[d].source))

\* The variant the literal builds from value.
ConstructVariant(decl, input) ==
    [ReturnOk([f \in Range(LiteralFields(decl)) |->
                  Projection(decl.literal[FirstIndex(LiteralFields(decl), f)].expr, input)])
        EXCEPT !.variant = decl.variant]

\* <Enum as From<T>>::from(value): the implementation for the type of value.
CallVariantFrom ==
    /\ outcome.done
    /\ outcome.panic = ""
    /\ request.item.shape = "enum"
    /\ CompilesEnum(outcome.output)
    /\ call.pc = "idle"
    /\ \E d \in 1..Len(outcome.output) :
          \E input \in ValuesOf(CompositeType(outcome.output[d].source)) :
             call' = [pc |-> "returned", args |-> <<input>>, idx |-> d, log |-> <<>>, env |-> <<>>,
                      result |-> ConstructVariant(outcome.output[d], input)]
    /\ UNCHANGED <<request, outcome, parserVars>>

-----------------------------------------------------------------------------
(* The macro invocations of the model.                                     *)

DeclaredTypeOf(ident) ==
    CASE ident = s_age -> s_u8
      [] ident = s_name -> s_str
      [] OTHER -> s_String

FieldNames == {s_age, s_name, s_id}

DistinctSeqsUpTo(S, n) == {q \in SeqsUpTo(S, n) : NoDuplicates(q)}

Four == <<Lit(<<"4">>)>>
Five == <<Lit(<<"5">>)>>

\* Records without markers, for the attribute form.
PlainStructs ==
    {Item("struct", s_CharacterInfo, <<>>, Map(names, LAMBDA f : Field(f, DeclaredTypeOf(f), <<>>))) :
        names \in DistinctSeqsUpTo(FieldNames, MaxFields)}

\* Records with #[no_from], #[no_from(4)] or no marker on every field.
MarkerChoices == {<<>>, <<Attribute(s_no_from, FALSE, <<>>)>>, <<Attribute(s_no_from, TRUE, Four)>>}

MarkedStructs ==
    {Item("struct", s_CharacterInfo, <<>>,
          [i \in 1..Len(names) |-> Field(names[i], DeclaredTypeOf(names[i]), markers[i])]) :
        names \in DistinctSeqsUpTo(FieldNames, MaxFields),
        markers \in [1..MaxFields -> MarkerChoices]}

\* A record whose two fields differ in the case of a letter only.
s_Id == <<"I","d">>
CaseClashStruct ==
    Item("struct", s_CharacterInfo, <<>>, <<Field(s_id, s_String, <<>>), Field(s_Id, s_String, <<>>)>>)

EnumItem == Item("enum", s_CharacterInfo, <<>>, <<>>)

\* Enums of up to MaxVariants variants V0, V1, ...: unit, tuple and named
\* variants, every one with or without #[no_from].
s_MyError == <<"M","y","E","r","r","o","r">>
VariantName(i) == <<"V", ToString(i - 1)>>
VariantFields ==
    {<<>>,
     <<Field(<<>>, s_u8, <<>>)>>,
     <<Field(<<>>, s_str, <<>>)>>,
     <<Field(<<>>, s_u8, <<>>), Field(<<>>, s_str, <<>>)>>,
     <<Field(s_age, s_u8, <<>>)>>,
     <<Field(s_age, s_u8, <<>>), Field(s_name, s_str, <<>>)>>}
VariantMarkers == {<<>>, <<Attribute(s_no_from, FALSE, <<>>)>>}
Enums ==
    {Enum(s_MyError, [i \in 1..Len(fs) |-> Variant(VariantName(i), markers[i], fs[i])]) :
        fs \in SeqsUpTo(VariantFields, MaxVariants),
        markers \in [1..MaxVariants -> VariantMarkers]}
UnionItem == Item("union", s_CharacterInfo, <<>>, <<>>)

Entry(key, stream) == <<Id(key), Paren(stream)>>

IdentList(names) == JoinWith(Map(names, LAMBDA f : <<Id(f)>>), <<Comma>>)

NamedChoices == {<<>>, <<Entry(s_named, <<Id(s_new)>>)>>}
PatternNames == {s_From, s_TryFrom, s_from, s_FROM, s_tryfrom, s_Form, s_Into}
PatternChoices == {<<>>} \cup {<<Entry(s_pattern, <<Id(p)>>)>> : p \in PatternNames}
FieldsChoices ==
    {<<>>} \cup {<<Entry(s_fields, IdentList(names))>> : names \in SeqsUpTo(FieldNames, MaxListed)}
DefaultPool == {Entry(s_id, Four), Entry(s_id, Five), Entry(s_age, Four), Entry(s_name, Five)}
DefaultsChoices ==
    {<<>>} \cup {<<Entry(s_defaults, JoinWith(es, <<Comma>>))>> : es \in SeqsUpTo(DefaultPool, MaxDefaults)}

AttrOf(entries) == JoinWith(entries, <<Comma>>)

\* Records Foo and CharacterInfo for the names of the error enum, and the
\* attributes naming and decorating it.
s_Foo == <<"F","o","o">>
s_MyEnumError == <<"M","y","E","n","u","m","E","r","r","o","r">>
NamedStructs ==
    {Item("struct", ident, <<>>, fields) :
        ident \in {s_Foo, s_CharacterInfo},
        fields \in {<<>>, <<Field(s_age, s_u8, <<>>)>>}}
DeriveDebug ==
    <<Punct("#"), Group("[", <<Id(<<"d","e","r","i","v","e">>), Paren(<<Id(<<"D","e","b","u","g">>)>>)>>)>>
ErrorEnumAttrs ==
    {AttrOf(n \o p \o e \o m) :
        n \in NamedChoices,
        p \in {<<>>, <<Entry(s_pattern, <<Id(s_From)>>)>>, <<Entry(s_pattern, <<Id(s_TryFrom)>>)>>},
        e \in {<<>>, <<Entry(s_error_enum_named, <<Id(s_MyEnumError)>>)>>},
        m \in {<<>>, <<Entry(s_error_enum_metadata, DeriveDebug)>>}}

\* Attributes exercising the field resolver.
FieldAttrs ==
    {AttrOf(n \o p \o f \o d) :
        n \in NamedChoices, p \in {<<>>, <<Entry(s_pattern, <<Id(s_TryFrom)>>)>>},
        f \in FieldsChoices, d \in DefaultsChoices}

\* Attributes exercising the pattern and the function name.
PatternAttrs == {AttrOf(n \o p) : n \in NamedChoices, p \in PatternChoices}

\* Attributes the grammar rejects.
MalformedAttrs ==
    {<<Id(s_named)>>, <<Paren(<<Id(s_new)>>)>>, Entry(s_named, <<Id(s_new)>>) \o Entry(s_pattern, <<Id(s_From)>>),
     Entry(s_named, <<>>), Entry(s_fields, <<Lit(<<"4">>)>>), Entry(s_defaults, <<Id(s_id)>>)}

Request(macro, item, attr) == [macro |-> macro, item |-> item, attr |-> attr]

Requests ==
    {Request("constructor", item, attr) : item \in PlainStructs, attr \in FieldAttrs \cup PatternAttrs \cup MalformedAttrs}
    \cup {Request("constructor", item, <<>>) : item \in {EnumItem, UnionItem}}
    \cup {Request(m, item, <<>>) : m \in {"derive_from", "derive_try_from"}, item \in MarkedStructs \cup {UnionItem}}
    \cup {Request("derive_from", item, <<>>) : item \in Enums}
    \cup {Request("derive_try_from", item, <<>>) : item \in {EnumItem, CaseClashStruct}}
    \cup {Request("constructor", item, attr) : item \in NamedStructs, attr \in ErrorEnumAttrs}
    \cup {Request("derive_try_from", item, <<>>) : item \in NamedStructs}

\* The streams the parser is run on.
s_a == <<"a">>
s_b == <<"b">>
s_c == <<"c">>
GroupOne == <<Lit(<<"1">>)>>
GroupTwoThree == <<Lit(<<"2">>), Comma, Lit(<<"3">>)>>

TokenPool == {Id(s_a), Id(s_b), Paren(GroupOne), Paren(<<>>), Group("[", GroupOne),
              Comma, Punct(";"), Lit(<<"1">>)}

ArbitraryStreams == SeqsUpTo(TokenPool, MaxTokens)

PairPool == {<<Id(i), Paren(g)>> : i \in {s_a, s_b, s_c}, g \in {GroupOne, GroupTwoThree, <<>>}}

WellFormedStreams ==
    {JoinWith(ps, <<Comma>>) \o trailing :
        ps \in SeqsUpTo(PairPool, MaxPairs), trailing \in {<<>>, <<Comma>>}}

NoRequest == [macro |-> "none", item |-> <<>>, attr |-> <<>>]
Pending == [done |-> FALSE, panic |-> "", pattern |-> "", fields_info |-> <<>>, output |-> <<>>]
Idle == [pc |-> "idle", args |-> <<>>, idx |-> 0, log |-> <<>>, env |-> <<>>, result |-> <<>>]

InitParser ==
    /\ parser_input \in ArbitraryStreams \cup WellFormedStreams
    /\ token_stream = parser_input
    /\ parse_phase = "Ident"
    /\ idents = <<>>
    /\ groups = <<>>
    /\ parse_result = Running
    /\ request = NoRequest
    /\ outcome = Pending
    /\ call = Idle

NextParser ==
    \/ ParseIdentPhase
    \/ ParseGroupPhase
    \/ ParsePunctPhase
    \/ ParseEndOfStream

SpecParser == InitParser /\ [][NextParser]_vars

Init ==
    /\ request \in Requests
    /\ outcome = Pending
    /\ call = Idle
    /\ parser_input = <<>>
    /\ token_stream = <<>>
    /\ parse_phase = "Ident"
    /\ idents = <<>>
    /\ groups = <<>>
    /\ parse_result = Running

Next ==
    \/ constructor
    \/ derive_from
    \/ derive_try_from
    \/ CallFrom
    \/ CallVariantFrom
    \/ CallTryFrom
    \/ ConvertField
    \/ ReturnConstructed

Spec == Init /\ [][Next]_vars

-----------------------------------------------------------------------------
(* The attribute macro alone, on annotations carrying any of its six keys. *)

KeyOrderStructs ==
    {Item("struct", s_CharacterInfo, <<>>, [i \in 1..Len(names) |-> Field(names[i], DeclaredTypeOf(names[i]), <<>>)]) :
        names \in {<<>>, <<s_age, s_name>>, <<s_age, s_name, s_id>>}}

KeyOrderAttrs ==
    {AttrOf(n \o p \o f \o d \o e \o m) :
        n \in NamedChoices,
        p \in {<<>>, <<Entry(s_pattern, <<Id(s_From)>>)>>, <<Entry(s_pattern, <<Id(s_TryFrom)>>)>>},
        f \in {<<>>, <<Entry(s_fields, IdentList(<<s_age>>))>>, <<Entry(s_fields, IdentList(<<s_name, s_age>>))>>},
        d \in {<<>>, <<Entry(s_defaults, Entry(s_id, Four))>>, <<Entry(s_defaults, Entry(s_age, Four))>>},
        e \in {<<>>, <<Entry(s_error_enum_named, <<Id(s_MyEnumError)>>)>>},
        m \in {<<>>, <<Entry(s_error_enum_metadata, DeriveDebug)>>}}

InitKeyOrder ==
    /\ request \in {Request("constructor", item, attr) : item \in KeyOrderStructs, attr \in KeyOrderAttrs}
    /\ outcome = Pending
    /\ call = Idle
    /\ parser_input = <<>>
    /\ token_stream = <<>>
    /\ parse_phase = "Ident"
    /\ idents = <<>>
    /\ groups = <<>>
    /\ parse_result = Running

NextKeyOrder == constructor

SpecKeyOrder == InitKeyOrder /\ [][NextKeyOrder]_vars

-----------------------------------------------------------------------------
(* What a request asks for, read off the attribute it was written with.    *)

AttrParsed == idents_and_groups_from(request.attr)
AttrHas(key) == AttrParsed.ok /\ \E i \in 1..Len(AttrParsed.value) : AttrParsed.value[i][1] = key
AttrGroup(key) == HashMapFrom(AttrParsed.value)[key]

IsAttributeMode == request.macro = "constructor"
Succeeded == outcome.done /\ outcome.panic = ""
Declared == Range(DeclaredIdents(request.item.fields))

\* The identifiers written inside fields(...), those that are identifiers.
ListedInFields ==
    IF AttrHas(s_fields)
    THEN {t.text : t \in {x \in Range(AttrGroup(s_fields)) : x.kind = "Ident"}}
    ELSE {}

\* The (identifier, initializer) entries written inside defaults(...).
DefaultsEntries ==
    IF AttrHas(s_defaults) /\ idents_and_groups_from(AttrGroup(s_defaults)).ok
    THEN idents_and_groups_from(AttrGroup(s_defaults)).value
    ELSE <<>>
NamedInDefaults == {DefaultsEntries[i][1] : i \in 1..Len(DefaultsEntries)}

Active == outcome.fields_info.fields_names
Passive == outcome.fields_info.no_from_fields
PassiveInitializers == outcome.fields_info.no_from_fields_initializers

-----------------------------------------------------------------------------
(* C1: for every generation request on a record, derive or attribute mode, *)
(* the active and the passive identifiers are disjoint, hold no duplicate, *)
(* and together are exactly the declared fields.                           *)
C1_Partition ==
    (Succeeded /\ request.item.shape = "struct") =>
        /\ NoDuplicates(Active \o Passive)
        /\ Range(Active) \cup Range(Passive) = Declared

(* C2: in attribute mode a name in fields(...) or a key of defaults(...)   *)
(* that is not a declared field makes the generation fail.                 *)
C2_UnknownFieldFails ==
    (IsAttributeMode /\ outcome.done /\ (ListedInFields \cup NamedInDefaults) \ Declared # {}) =>
        outcome.panic # ""

-----------------------------------------------------------------------------
\* The conversions the fallible constructor has attempted, in order.
Attempts == SelectSeq(call.log, LAMBDA e : e.op = "try_from")

(* C3: the fallible constructor attempts the conversions in active-field   *)
(* order, and after the first failing conversion attempts no other.        *)
C3_ShortCircuitInOrder ==
    (Succeeded /\ outcome.pattern = "TryFrom") =>
        /\ Len(Attempts) <= Len(Active)
        /\ \A k \in 1..Len(Attempts) :
              /\ Attempts[k].field = Active[k]
              /\ ~Attempts[k].ok => k = Len(Attempts) /\ call.log[Len(call.log)] = Attempts[k]

\* The first conversion of two failed and the second was never attempted.
C3_Witness ==
    /\ call.pc = "returned"
    /\ outcome.pattern = "TryFrom"
    /\ Len(Active) = 2
    /\ Len(Attempts) = 1
    /\ ~Attempts[1].ok

\* The variant names the documentation and the tests show for the fields.
ExpectedVariant(field) ==
    CASE field = s_age -> <<"A","g","e","E","r","r","o","r">>
      [] field = s_name -> <<"N","a","m","e","E","r","r","o","r">>
      [] field = s_id -> <<"I","d","E","r","r","o","r">>

(* C4: the fallible constructor returns Ok(record) exactly when every      *)
(* active field converted; otherwise Err of the variant of the leftmost    *)
(* failing field, carrying the error that conversion produced.             *)
C4_FallibleResult ==
    (call.pc = "returned" /\ outcome.pattern = "TryFrom") =>
        LET failing == {k \in 1..Len(Attempts) : ~Attempts[k].ok}
        IN  IF failing = {}
            THEN /\ call.result.tag = "Ok"
                 /\ Len(Attempts) = Len(Active)
                 /\ DOMAIN call.result.record = Declared
            ELSE LET k == CHOOSE i \in failing : \A j \in failing : i <= j
                 IN  /\ call.result.tag = "Err"
                     /\ call.result.variant = ExpectedVariant(Active[k])
                     /\ call.result.payload = Attempts[k].error
                     /\ call.result.payload \in ConversionErrors

\* (age, name) called with an age that does not fit: AgeError(overflow).
C4_Witness ==
    /\ call.pc = "returned"
    /\ outcome.pattern = "TryFrom"
    /\ Active = <<s_age, s_name>>
    /\ call.result.tag = "Err"
    /\ call.result.variant = <<"A","g","e","E","r","r","o","r">>
    /\ call.result.payload = "PosOverflow"

\* The default values of the declared types: 0 for u8, empty for the strings.
ExpectedDefault(field) == IF field = s_age THEN <<Lit(<<"0">>)>> ELSE <<Lit(<<>>)>>

(* C5: the record built by the generated direct conversion has every       *)
(* active field equal to the argument at its position and every passive    *)
(* field equal to the value of its initializer (the type's default when    *)
(* the initializer is Default::default()).                                 *)
C5_DirectRoundTrip ==
    (call.pc = "returned" /\ outcome.pattern = "From" /\ request.item.shape = "struct") =>
        /\ call.result.tag = "Ok"
        /\ DOMAIN call.result.record = Declared
        /\ \A i \in 1..Len(Active) : call.result.record[Active[i]] = call.args[i]
        /\ \A j \in 1..Len(Passive) :
              call.result.record[Passive[j]] =
                  IF PassiveInitializers[j] = <<Id(<<"D","e","f","a","u","l","t">>), Paren(<<>>)>>
                  THEN ExpectedDefault(Passive[j])
                  ELSE PassiveInitializers[j]

\* A direct constructor of two arguments returned a record whose third
\* field is passive and initialized with 4.
C5_Witness ==
    /\ call.pc = "returned"
    /\ outcome.pattern = "From"
    /\ Len(Active) = 2
    /\ Len(Passive) = 1
    /\ call.result.record[Active[2]] = call.args[2]
    /\ call.result.record[Passive[1]] = <<Lit(<<"4">>)>>

\* The fields the `fields` key names: the listed ones, and by its documented
\* default every declared field that `defaults` does not name.
NamedInFields == IF AttrHas(s_fields) THEN ListedInFields ELSE Declared \ NamedInDefaults

(* C6: in attribute mode every declared field named neither in `fields`    *)
(* (the listed identifiers, or its default when the key is absent) nor in  *)
(* `defaults` is passive with the initializer Default::default(), and      *)
(* every entry of `defaults` keeps the initializer written for it.         *)
C6_DefaultingComplete ==
    (IsAttributeMode /\ Succeeded) =>
        /\ \A f \in Declared \ (NamedInFields \cup NamedInDefaults) :
              /\ Cardinality({j \in 1..Len(Passive) : Passive[j] = f}) = 1
              /\ \A j \in 1..Len(Passive) :
                    Passive[j] = f =>
                        PassiveInitializers[j] = <<Id(<<"D","e","f","a","u","l","t">>), Paren(<<>>)>>
        /\ Len(Passive) = Len(PassiveInitializers)
        /\ \A i \in 1..Len(DefaultsEntries) :
              /\ Passive[i] = DefaultsEntries[i][1]
              /\ PassiveInitializers[i] = DefaultsEntries[i][2]

\* fields(age) defaults(id(4)) on a record that also declares another field.
C6_Witness ==
    /\ IsAttributeMode
    /\ Succeeded
    /\ NamedInDefaults \subseteq Declared
    /\ AttrHas(s_fields)
    /\ Len(DefaultsEntries) = 1
    /\ Declared \ (NamedInFields \cup NamedInDefaults) # {}
    /\ Len(Passive) = 2

-----------------------------------------------------------------------------
\* name(group), name(group), ...: identifiers, parenthesized groups, commas.
WellFormed(input) ==
    /\ Len(input) % 3 # 1
    /\ \A i \in 1..Len(input) :
          CASE i % 3 = 1 -> input[i].kind = "Ident"
            [] i % 3 = 2 -> input[i].kind = "Group" /\ input[i].text = <<"(">>
            [] OTHER -> input[i] = [kind |-> "Punct", text |-> <<",">>, stream |-> <<>>]

(* C7: on a well-formed stream the parser returns one (identifier, group   *)
(* content) pair per identifier, in input order, each identifier with the  *)
(* whole content of the group that follows it.                             *)
C7_WellFormedPairs ==
    (parse_result.done /\ WellFormed(parser_input)) =>
        /\ parse_result.ok
        /\ Len(parse_result.value) = (Len(parser_input) + 1) \div 3
        /\ \A k \in 1..Len(parse_result.value) :
              parse_result.value[k] = <<parser_input[3 * k - 2].text, parser_input[3 * k - 1].stream>>

\* a(1), b(2,3), c() parsed to [(a,"1"), (b,"2,3"), (c,"")].
C7_Witness ==
    /\ parse_result.done
    /\ Len(parser_input) = 8
    /\ parse_result.value =
          << <<(<<"a">>), <<[kind |-> "Literal", text |-> <<"1">>, stream |-> <<>>]>> >>,
             <<(<<"b">>), <<[kind |-> "Literal", text |-> <<"2">>, stream |-> <<>>],
                           [kind |-> "Punct", text |-> <<",">>, stream |-> <<>>],
                           [kind |-> "Literal", text |-> <<"3">>, stream |-> <<>>]>> >>,
             <<(<<"c">>), <<>> >> >>

\* The kind of token the state reached after i - 1 accepted tokens admits.
AdmittedKind(i) == CASE i % 3 = 1 -> "Ident" [] i % 3 = 2 -> "Group" [] OTHER -> "Punct"

Misplaced(input) == {i \in 1..Len(input) : input[i].kind # AdmittedKind(i)}

(* C8: the parser fails, returning no pairs, when a token arrives in a     *)
(* state that does not admit it (with the message of that state) and when  *)
(* the stream ends with an identifier still awaiting its group.            *)
C8_RejectsMisplaced ==
    parse_result.done =>
        /\ Misplaced(parser_input) # {} =>
              LET i == CHOOSE m \in Misplaced(parser_input) : \A n \in Misplaced(parser_input) : m <= n
              IN  /\ ~parse_result.ok
                  /\ parse_result.value = <<>>
                  /\ parse_result.err =
                        CASE i % 3 = 1 -> "Expected a name"
                          [] i % 3 = 2 -> "Expected a group after group named"
                          [] OTHER -> "Expected a separator after group named"
        /\ (Misplaced(parser_input) = {} /\ Len(parser_input) % 3 = 1) =>
              /\ ~parse_result.ok
              /\ parse_result.value = <<>>
              /\ parse_result.err = "Expected a group"

\* a(1), b fails with the group-expected error.
C8_Witness ==
    /\ parse_result.done
    /\ Len(parser_input) = 4
    /\ Misplaced(parser_input) = {}
    /\ parse_result.err = "Expected a group"

-----------------------------------------------------------------------------
\* The requests of the attribute form that reach the resolution of the
\* pattern: a record, a well-formed attribute, a well-formed function name.
ReachesPattern ==
    /\ IsAttributeMode
    /\ outcome.done
    /\ request.item.shape = "struct"
    /\ AttrParsed.ok
    /\ AttrHas(s_named) => Len(AttrGroup(s_named)) = 1 /\ AttrGroup(s_named)[1].kind = "Ident"

PatternValue == to_string(AttrGroup(s_pattern))

UnsupportedPattern == outcome.panic = "This constructor is asking for a pattern by the name of"
Selects(pattern) == ~UnsupportedPattern /\ (Succeeded => outcome.pattern = pattern)

SameIgnoringCase(a, b) ==
    /\ Len(a) = Len(b)
    /\ \A i \in 1..Len(a) : a[i] = b[i] \/ ToUpperChar(a[i]) = b[i] \/ a[i] = ToUpperChar(b[i])

(* C9 as claimed: no pattern key and pattern(From) select Direct,          *)
(* pattern(TryFrom) selects Fallible, and every value outside              *)
(* {From, TryFrom} aborts with the unsupported-pattern failure.            *)
C9_OnlyFromAndTryFrom ==
    ReachesPattern =>
        IF ~AttrHas(s_pattern) THEN Selects("From")
        ELSE IF PatternValue = <<"F","r","o","m">> THEN Selects("From")
        ELSE IF PatternValue = <<"T","r","y","F","r","o","m">> THEN Selects("TryFrom")
        ELSE UnsupportedPattern

(* C9 amended: the pattern value is compared ignoring letter case; no      *)
(* pattern key and a value spelling From in any case select Direct, a      *)
(* value spelling TryFrom in any case selects Fallible, and every other    *)
(* value aborts with the unsupported-pattern failure.                      *)
C9_PatternIgnoringCase ==
    ReachesPattern =>
        IF ~AttrHas(s_pattern) THEN Selects("From")
        ELSE IF SameIgnoringCase(PatternValue, <<"F","r","o","m">>) THEN Selects("From")
        ELSE IF SameIgnoringCase(PatternValue, <<"T","r","y","F","r","o","m">>) THEN Selects("TryFrom")
        ELSE UnsupportedPattern

\* The misspelling pattern(Form) aborted the generation.
C9_Witness ==
    /\ ReachesPattern
    /\ AttrHas(s_pattern)
    /\ PatternValue = <<"F","o","r","m">>
    /\ UnsupportedPattern

-----------------------------------------------------------------------------
Emitted(kind) == {d \in 1..Len(outcome.output) : outcome.output[d].decl = kind}

(* C10: for both patterns a request with a function name emits one         *)
(* function of that name on the target type and no trait implementation;   *)
(* a request without one emits one implementation of the conversion trait  *)
(* of its pattern and no function.                                         *)
C10_FunctionOrTrait ==
    (Succeeded /\ request.item.shape = "struct") =>
        IF IsAttributeMode /\ AttrHas(s_named)
        THEN /\ Emitted("impl_trait") = {}
             /\ Cardinality(Emitted("impl_fn")) = 1
             /\ \A d \in Emitted("impl_fn") :
                   /\ outcome.output[d].fn_name = AttrGroup(s_named)[1].text
                   /\ outcome.output[d].target = request.item.ident
        ELSE /\ Emitted("impl_fn") = {}
             /\ Cardinality(Emitted("impl_trait")) = 1
             /\ \A d \in Emitted("impl_trait") :
                   /\ outcome.output[d].trait =
                         (IF outcome.pattern = "From" THEN <<"F","r","o","m">>
                          ELSE <<"T","r","y","F","r","o","m">>)
                   /\ outcome.output[d].target = request.item.ident

\* named(new) with the direct pattern emitted the function new.
C10_Witness ==
    /\ Succeeded
    /\ IsAttributeMode
    /\ AttrHas(s_named)
    /\ outcome.pattern = "From"
    /\ \E d \in Emitted("impl_fn") : outcome.output[d].fn_name = <<"n","e","w">>

-----------------------------------------------------------------------------
\* The identifiers written inside fields(...), in the order written.
ListedSeq ==
    LET written == SelectSeq(AttrGroup(s_fields), LAMBDA t : t.kind = "Ident")
    IN  [i \in 1..Len(written) |-> written[i].text]

\* The declared fields that are in S, in declaration order.
InDeclarationOrder(S) == SelectSeq(DeclaredIdents(request.item.fields), LAMBDA f : f \in S)

\* The types the records of the model declare for their fields.
TypeDeclaredFor(field) ==
    CASE field = <<"a","g","e">> -> <<"u","8">>
      [] field = <<"n","a","m","e">> -> <<"s","t","r">>
      [] OTHER -> <<"S","t","r","i","n","g">>

IsNamedDirect == Succeeded /\ IsAttributeMode /\ AttrHas(s_named) /\ outcome.pattern = "From"

HasDeclaredTypes(d) ==
    /\ Len(outcome.output[d].param_types) = Len(outcome.output[d].param_names)
    /\ \A i \in 1..Len(outcome.output[d].param_names) :
          outcome.output[d].param_types[i] = TypeDeclaredFor(outcome.output[d].param_names[i])

(* C11 as claimed, on requests whose active fields are distinct: the       *)
(* direct named function takes one parameter per active field, of the      *)
(* field's declared type, in the declaration order of the record, also     *)
(* when fields(...) lists them in another order.                           *)
C11_ParamsInDeclarationOrder ==
    (IsNamedDirect /\ NoDuplicates(Active)) =>
        \A d \in Emitted("impl_fn") :
            /\ outcome.output[d].param_names = InDeclarationOrder(Range(Active))
            /\ HasDeclaredTypes(d)

(* C11 amended: the direct named function takes one parameter per active   *)
(* field, of the field's declared type, in active-field order: the order   *)
(* written in fields(...) when the key is given, the declaration order     *)
(* otherwise.                                                              *)
C11_ParamsInActiveOrder ==
    IsNamedDirect =>
        \A d \in Emitted("impl_fn") :
            /\ outcome.output[d].param_names =
                  (IF AttrHas(s_fields) THEN ListedSeq ELSE InDeclarationOrder(Declared \ NamedInDefaults))
            /\ HasDeclaredTypes(d)

\* fields(name, age) on a record declaring age before name: new(name, age).
C11_Witness ==
    /\ IsNamedDirect
    /\ AttrHas(s_fields)
    /\ InDeclarationOrder({<<"a","g","e">>, <<"n","a","m","e">>}) = << <<"a","g","e">>, <<"n","a","m","e">> >>
    /\ \E d \in Emitted("impl_fn") :
          /\ outcome.output[d].param_names = << <<"n","a","m","e">>, <<"a","g","e">> >>
          /\ outcome.output[d].param_types = << <<"s","t","r">>, <<"u","8">> >>

(* C12: in attribute mode without a fields key the active fields are the   *)
(* declared fields not named in defaults, in declaration order; with a     *)
(* fields key they are the listed identifiers in the listed order; each    *)
(* active field has the type declared for the field of that identifier.    *)
C12_ActiveFields ==
    (IsAttributeMode /\ Succeeded) =>
        /\ Active = (IF AttrHas(s_fields) THEN ListedSeq ELSE InDeclarationOrder(Declared \ NamedInDefaults))
        /\ Len(outcome.fields_info.fields_types) = Len(Active)
        /\ \A i \in 1..Len(Active) : outcome.fields_info.fields_types[i] = TypeDeclaredFor(Active[i])

\* No fields key and defaults naming the second of three declared fields.
C12_Witness ==
    /\ IsAttributeMode
    /\ Succeeded
    /\ ~AttrHas(s_fields)
    /\ Len(request.item.fields) = 3
    /\ NamedInDefaults = {request.item.fields[2].ident}
    /\ Active = <<request.item.fields[1].ident, request.item.fields[3].ident>>

-----------------------------------------------------------------------------
IsDeriveOnRecord ==
    request.macro \in {"derive_from", "derive_try_from"} /\ Succeeded /\ request.item.shape = "struct"

\* The skip markers of a declared field.
SkipMarkers(field) == SelectSeq(field.attrs, LAMBDA a : a.path = <<"n","o","_","f","r","o","m">>)
Unmarked == SelectSeq(request.item.fields, LAMBDA f : SkipMarkers(f) = <<>>)
Marked == SelectSeq(request.item.fields, LAMBDA f : SkipMarkers(f) # <<>>)

(* C13: in derive mode a field is passive exactly when it carries the      *)
(* no_from marker; its initializer is the marker's expression when it has  *)
(* one and Default::default() otherwise; the unmarked fields are active;   *)
(* active and passive fields both appear in declaration order.             *)
C13_DeriveMarkers ==
    IsDeriveOnRecord =>
        /\ Active = [i \in 1..Len(Unmarked) |-> Unmarked[i].ident]
        /\ outcome.fields_info.fields_types = [i \in 1..Len(Unmarked) |-> Unmarked[i].ty]
        /\ Passive = [j \in 1..Len(Marked) |-> Marked[j].ident]
        /\ PassiveInitializers =
              [j \in 1..Len(Marked) |->
                  IF SkipMarkers(Marked[j])[1].parenthesized
                  THEN SkipMarkers(Marked[j])[1].tokens
                  ELSE <<Id(<<"D","e","f","a","u","l","t">>), Paren(<<>>)>>]

\* One unmarked field, then #[no_from], then #[no_from(4)].
C13_Witness ==
    /\ IsDeriveOnRecord
    /\ Len(Active) = 1
    /\ Len(Passive) = 2
    /\ PassiveInitializers = << <<Id(<<"D","e","f","a","u","l","t">>), Paren(<<>>)>>, <<Lit(<<"4">>)>> >>

-----------------------------------------------------------------------------
IsDeriveOnEnum == request.macro = "derive_from" /\ request.item.shape = "enum"

\* The variants without the skip marker, in declaration order.
EligibleVariants ==
    SelectSeq(request.item.variants,
              LAMBDA v : \A a \in 1..Len(v.attrs) : v.attrs[a].path # <<"n","o","_","f","r","o","m">>)

(* C14: on every enum, whatever the number of variants (none included)     *)
(* and whichever of them are marked skip (all included), the derive        *)
(* succeeds and emits exactly one From implementation per variant that is  *)
(* not skipped, in declaration order, and none for a skipped variant.      *)
C14_OneImplPerEligibleVariant ==
    (IsDeriveOnEnum /\ outcome.done) =>
        /\ outcome.panic = ""
        /\ Len(outcome.output) = Len(EligibleVariants)
        /\ \A d \in 1..Len(outcome.output) :
              /\ outcome.output[d].decl = "impl_trait"
              /\ outcome.output[d].trait = <<"F","r","o","m">>
              /\ outcome.output[d].target = request.item.ident
              /\ outcome.output[d].variant = EligibleVariants[d].ident

\* The variant an emitted implementation builds.
VariantBuiltBy(d) ==
    CHOOSE v \in Range(request.item.variants) : v.ident = outcome.output[d].variant

\* The name the i-th field of a variant goes by: its identifier, or its
\* position counted from 0.
FieldKey(v, i) == IF v.fields[i].ident # <<>> THEN v.fields[i].ident ELSE <<ToString(i - 1)>>

ExpectedComposite(v) ==
    [shape |-> IF Len(v.fields) = 0 THEN "unit" ELSE IF Len(v.fields) = 1 THEN "bare" ELSE "tuple",
     types |-> [i \in 1..Len(v.fields) |-> v.fields[i].ty]]

(* C15: the conversion of an eligible variant with n fields takes the unit *)
(* composite for n = 0, the bare field type for n = 1 and the n-tuple of   *)
(* the field types in declaration order for n >= 2, and builds that        *)
(* variant with field i (by name, or by position) set to element i of the  *)
(* composite, the whole input when n = 1.                                  *)
C15_VariantComposite ==
    /\ (IsDeriveOnEnum /\ Succeeded) =>
          \A d \in 1..Len(outcome.output) :
             LET v == VariantBuiltBy(d)
                 composite == CompositeType(outcome.output[d].source)
             IN  /\ composite = ExpectedComposite(v)
                 /\ LiteralFields(outcome.output[d]) = [i \in 1..Len(v.fields) |-> FieldKey(v, i)]
                 /\ \A i \in 1..Len(v.fields) :
                       ProjectionCompiles(outcome.output[d].literal[i].expr, composite)
    /\ (IsDeriveOnEnum /\ call.pc = "returned") =>
          LET v == VariantBuiltBy(call.idx)
              input == call.args[1]
          IN  /\ call.result.tag = "Ok"
              /\ call.result.variant = v.ident
              /\ DOMAIN call.result.record = {FieldKey(v, i) : i \in 1..Len(v.fields)}
              /\ \A i \in 1..Len(v.fields) :
                    call.result.record[FieldKey(v, i)] =
                        (IF Len(v.fields) = 1 THEN input
                         ELSE [shape |-> "scalar", elems |-> <<input.elems[i]>>])

\* An enum with a one-field and a two-field tuple variant; from of a pair
\* returned the second variant with fields 0 and 1 set to its elements.
C15_Witness ==
    /\ IsDeriveOnEnum
    /\ call.pc = "returned"
    /\ Len(outcome.output) = 2
    /\ Len(VariantBuiltBy(1).fields) = 1
    /\ call.idx = 2
    /\ call.args[1].shape = "tuple"
    /\ call.result.record[<<"0">>] = [shape |-> "scalar", elems |-> <<call.args[1].elems[1]>>]
    /\ call.result.record[<<"1">>] = [shape |-> "scalar", elems |-> <<call.args[1].elems[2]>>]

-----------------------------------------------------------------------------
IsFallible == Succeeded /\ request.item.shape = "struct" /\ outcome.pattern = "TryFrom"

\* The generic error types of the emitted enum and the placeholder types of
\* the emitted constructor.
ErrorIdentifiers == outcome.output[1].generics
PlaceholderIdentifiers == outcome.output[Len(outcome.output)].param_types

(* C16: for every fallible request the error identifiers <Field>Error and  *)
(* the placeholder identifiers <Field>From correspond one to one to the    *)
(* active fields: same count, same order, and distinct for distinct        *)
(* active field identifiers.                                               *)
C16_IdentifiersOneToOne ==
    IsFallible =>
        /\ Len(ErrorIdentifiers) = Len(Active)
        /\ Len(PlaceholderIdentifiers) = Len(Active)
        /\ \A i, j \in 1..Len(Active) :
              Active[i] # Active[j] =>
                  /\ ErrorIdentifiers[i] # ErrorIdentifiers[j]
                  /\ PlaceholderIdentifiers[i] # PlaceholderIdentifiers[j]

-----------------------------------------------------------------------------
\* The words of the model's type and function names with a capital first
\* letter, written out.
Capitalized(word) ==
    CASE word = <<"n","e","w">> -> <<"N","e","w">>
      [] word = <<"F","o","o">> -> <<"F","o","o">>
      [] word = <<"C","h","a","r","a","c","t","e","r","I","n","f","o">> ->
             <<"C","h","a","r","a","c","t","e","r","I","n","f","o">>

\* The name of the emitted error enum.
ErrorEnumName == outcome.output[1].target

(* C17: the error enum is named by error_enum_named when that is supplied; *)
(* otherwise its name is <Type>_<function>_error in Pascal case (Foo and   *)
(* new give FooNewError), with TryFrom for the function when none is       *)
(* named, which is the name <Type>TryFromError of the derive form.         *)
C17_ErrorEnumName ==
    IsFallible =>
        /\ outcome.output[1].decl = "enum"
        /\ ErrorEnumName =
             (IF IsAttributeMode /\ AttrHas(s_error_enum_named)
              THEN AttrGroup(s_error_enum_named)[1].text
              ELSE IF IsAttributeMode /\ AttrHas(s_named)
              THEN Capitalized(request.item.ident) \o Capitalized(AttrGroup(s_named)[1].text)
                      \o <<"E","r","r","o","r">>
              ELSE Capitalized(request.item.ident) \o <<"T","r","y","F","r","o","m","E","r","r","o","r">>)

\* Foo with named(new), pattern(TryFrom) and no error_enum_named: FooNewError.
C17_Witness ==
    /\ IsFallible
    /\ IsAttributeMode
    /\ request.item.ident = <<"F","o","o">>
    /\ AttrHas(s_named)
    /\ ~AttrHas(s_error_enum_named)
    /\ ErrorEnumName = <<"F","o","o","N","e","w","E","r","r","o","r">>

-----------------------------------------------------------------------------
\* The request asks for the fallible pattern: derive(TryFrom), or a pattern
\* key spelling TryFrom.
AsksFallible ==
    \/ request.macro = "derive_try_from"
    \/ IsAttributeMode /\ AttrHas(s_pattern)
          /\ SameIgnoringCase(PatternValue, <<"T","r","y","F","r","o","m">>)

(* C18: an error enum is emitted exactly when the pattern of the request   *)
(* is Fallible: a Direct request emits none, also when error_enum_named or *)
(* error_enum_metadata is supplied, and a Fallible request emits one.      *)
C18_ErrorEnumIffFallible ==
    (Succeeded /\ request.item.shape = "struct") =>
        Cardinality(Emitted("enum")) = (IF AsksFallible THEN 1 ELSE 0)

\* pattern(From) with error_enum_named and error_enum_metadata: no enum.
C18_Witness ==
    /\ Succeeded
    /\ IsAttributeMode
    /\ AttrHas(s_pattern)
    /\ ~AsksFallible
    /\ AttrHas(s_error_enum_named)
    /\ AttrHas(s_error_enum_metadata)
    /\ Emitted("enum") = {}
    /\ Emitted("impl_trait") \cup Emitted("impl_fn") # {}

-----------------------------------------------------------------------------
\* The ways a request fails to generate.
MalformedAnnotation == IsAttributeMode /\ ~AttrParsed.ok
UnknownFieldNamed ==
    IsAttributeMode /\ AttrParsed.ok /\ (ListedInFields \cup NamedInDefaults) \ Declared # {}
UnsupportedPatternAsked ==
    /\ IsAttributeMode
    /\ AttrHas(s_pattern)
    /\ ~SameIgnoringCase(PatternValue, <<"F","r","o","m">>)
    /\ ~SameIgnoringCase(PatternValue, <<"T","r","y","F","r","o","m">>)
UnsupportedShape ==
    \/ request.macro \in {"constructor", "derive_try_from"} /\ request.item.shape # "struct"
    \/ request.macro = "derive_from" /\ request.item.shape = "union"
GenerationFailure ==
    MalformedAnnotation \/ UnknownFieldNamed \/ UnsupportedPatternAsked \/ UnsupportedShape

(* C19: every generation failure (malformed annotation, unknown field,     *)
(* unsupported pattern, unsupported shape) aborts the request with no      *)
(* generated declaration; the outcome of a request is either its complete  *)
(* output or a failure with no output.                                     *)
C19_FailureLeavesNoOutput ==
    outcome.done =>
        /\ GenerationFailure => outcome.panic # "" /\ outcome.output = <<>>
        /\ outcome.panic # "" => outcome.output = <<>>
        /\ outcome.panic = "" => outcome.output # <<>>

-----------------------------------------------------------------------------
\* The tokens the parser has consumed so far.
Consumed == SubSeq(parser_input, 1, Len(parser_input) - Len(token_stream))

(* C20: in its expect-group state the parser accepts only a parenthesized  *)
(* group: it never moves past an identifier followed by a bracketed or     *)
(* braced group (a[1], a{1}), which is a parse failure like an identifier  *)
(* followed by a token that is no group.                                   *)
C20_OnlyParenthesizedGroups ==
    \A k \in 1..Len(Consumed) :
        k % 3 = 2 => Consumed[k].kind = "Group" /\ Consumed[k].text = <<"(">>

-----------------------------------------------------------------------------
\* The state reached after n steps of the cycle identifier, group, separator.
PhaseAfter(n) ==
    CASE n % 3 = 0 -> "Ident"
      [] n % 3 = 1 -> "Group"
      [] OTHER -> "Punct"

(* C21: after every token the parser has consumed without failure the      *)
(* accepted groups g and identifiers i satisfy g <= i <= g + 1, with       *)
(* i = g + 1 exactly when the next state is expect-group and i = g         *)
(* exactly when it is expect-separator or expect-identifier; every token   *)
(* is consumed once, in order, and each consumed token advances the state  *)
(* by one step of the cycle identifier, group, separator.                  *)
C21_CountsFollowTheCycle ==
    /\ Len(groups) <= Len(idents)
    /\ Len(idents) <= Len(groups) + 1
    /\ (Len(idents) = Len(groups) + 1) <=> (parse_phase = "Group")
    /\ (Len(idents) = Len(groups)) <=> (parse_phase \in {"Punct", "Ident"})
    /\ Len(token_stream) <= Len(parser_input)
    /\ token_stream = SubSeq(parser_input, Len(Consumed) + 1, Len(parser_input))
    /\ parse_phase = PhaseAfter(Len(Consumed))
    /\ Len(idents) + Len(groups) = Len(Consumed) - (Len(Consumed) \div 3)

\* a(1), b consumed: two identifiers, one group, a group expected next.
C21_Witness ==
    /\ Len(Consumed) = 4
    /\ token_stream = <<>>
    /\ ~parse_result.done
    /\ Len(idents) = 2
    /\ Len(groups) = 1
    /\ parse_phase = "Group"

-----------------------------------------------------------------------------
\* The key(group) entries written at the top level of the annotation.
TopLevelKeys == [i \in 1..Len(AttrParsed.value) |-> AttrParsed.value[i][1]]
TopLevelEntries ==
    [i \in 1..Len(AttrParsed.value) |-> Entry(AttrParsed.value[i][1], AttrParsed.value[i][2])]

KeyOrders(n) == {p \in [1..n -> 1..n] : \A i, j \in 1..n : p[i] = p[j] => i = j}

\* The annotation with its entries written in the order p.
Reordered(entries, p) == AttrOf([i \in 1..Len(entries) |-> entries[p[i]]])

HasDistinctKeys ==
    /\ IsAttributeMode
    /\ AttrParsed.ok
    /\ NoDuplicates(TopLevelKeys)
    /\ AttrOf(TopLevelEntries) = request.attr

(* C22: the outcome of the attribute form does not depend on the order in  *)
(* which distinct top-level keys are written: the annotation with the same *)
(* key(group) entries in any other order gives the same generated          *)
(* declarations (or the same failure), and running the macro again on the  *)
(* same input gives the same outcome.                                      *)
C22_KeyOrderIrrelevant ==
    (HasDistinctKeys /\ outcome.done) =>
        LET entries == TopLevelEntries
        IN  \A p \in KeyOrders(Len(entries)) :
                constructor_macro(Reordered(entries, p), request.item) = outcome

\* All six keys written: the annotation written backwards generates the
\* same error enum and the same function.
C22_Witness ==
    /\ HasDistinctKeys
    /\ Succeeded
    /\ Len(TopLevelEntries) = 6
    /\ Len(outcome.output) = 2
    /\ LET backwards == [i \in 1..6 |-> 7 - i]
       IN  /\ Reordered(TopLevelEntries, backwards) # request.attr
           /\ constructor_macro(Reordered(TopLevelEntries, backwards), request.item) = outcome

-----------------------------------------------------------------------------
\* The passive initializers the fallible constructor has evaluated, in order.
Evaluated == SelectSeq(call.log, LAMBDA e : e.op = "initializer")

(* C23: the generated fallible constructor evaluates the initializers of   *)
(* the passive fields only after every conversion of an active field has   *)
(* succeeded, and in passive-field order; a run that returns an error      *)
(* evaluates no passive initializer.                                       *)
C23_InitializersAfterConversions ==
    (Succeeded /\ outcome.pattern = "TryFrom") =>
        /\ \A k \in 1..Len(call.log) :
              call.log[k].op = "initializer" =>
                  /\ \A j \in k..Len(call.log) : call.log[j].op = "initializer"
                  /\ Len(Attempts) = Len(Active)
                  /\ \A a \in 1..Len(Attempts) : Attempts[a].ok
        /\ Len(Evaluated) <= Len(Passive)
        /\ \A i \in 1..Len(Evaluated) :
              /\ Evaluated[i].field = Passive[i]
              /\ Evaluated[i].value = PassiveInitializers[i]
        /\ call.pc = "returned" =>
              IF call.result.tag = "Err"
              THEN Evaluated = <<>>
              ELSE Len(Evaluated) = Len(Passive)

\* One conversion succeeded, then the two passive initializers ran in the
\* order of the passive fields.
C23_Witness ==
    /\ Succeeded
    /\ outcome.pattern = "TryFrom"
    /\ call.pc = "returned"
    /\ call.result.tag = "Ok"
    /\ Len(Active) = 1
    /\ Len(Passive) = 2
    /\ PassiveInitializers[1] # PassiveInitializers[2]
    /\ Len(call.log) = 3
    /\ call.log[1].op = "try_from"
    /\ call.log[2].field = Passive[1]
    /\ call.log[3].field = Passive[2]

=============================================================================
